---- MODULE Spec2Model ----
(***************************************************************************)
(* Client-side state management of the Malta Business Indexer frontend:    *)
(* the useBusinesses, useStores and useGeolocation hooks, the ApiService   *)
(* (axios) client with its interceptors, and the App / SearchFilters /     *)
(* BusinessList wiring that drives them.  The backend and the platform's   *)
(* location provider are the environment.                                  *)
(***************************************************************************)
EXTENDS Integers, Sequences, FiniteSets, Bags, TLC

(***************************************************************************)
(* Bounds of the model.                                                    *)
(***************************************************************************)
\* number of user actions (after mounting) in one run
MaxUserActions == 2
\* records the backend holds in category "grocery" (ids 1..GroceryTotal)
GroceryTotal == 120
\* records the backend holds in category "pharmacy"
PharmacyTotal == 2
\* largest offset or limit that appears in a query string
MaxNum == 600

(***************************************************************************)
(* JavaScript values that occur in parameter objects.                      *)
(***************************************************************************)
Undefined == [t |-> "undefined"]
Null      == [t |-> "null"]
NaN       == [t |-> "nan"]
Str(s)    == [t |-> "str", s |-> s]
Num(n)    == [t |-> "num", n |-> n]
Bool(b)   == [t |-> "bool", b |-> b]

\* the empty parameter object {}
EmptyObj == [k \in {} |-> Undefined]

\* { ...a, ...b }: b's keys win
Spread(a, b) ==
  [k \in (DOMAIN a) \cup (DOMAIN b) |-> IF k \in DOMAIN b THEN b[k] ELSE a[k]]

\* value.toString() / String(value) of a number or a string
JsToString(v) == IF v.t = "num" THEN ToString(v.n) ELSE v.s

\* the numbers of the model: offsets, limits, coordinates, and the radius
\* options (metres) of SearchFilters and ApiService
Numbers == (0..MaxNum) \cup {1000, 2000, 5000, 10000, 25000}

\* decimal strings of the numbers of the model
NumStrings == {ToString(n) : n \in Numbers}

\* the number each decimal string denotes
NumOf == [s \in NumStrings |-> CHOOSE n \in Numbers : ToString(n) = s]

\* parseInt / parseFloat of a decimal string
ParseNum(s) == NumOf[s]

\* parseFloat(value)
ParseFloat(v) ==
  IF v.t = "num" THEN v
  ELSE IF v.t = "str" /\ v.s \in NumStrings THEN Num(ParseNum(v.s))
  ELSE NaN

\* JavaScript truthiness of a parameter value
Truthy(v) ==
  CASE v.t = "num" -> v.n # 0
    [] v.t = "str" -> v.s # ""
    [] OTHER -> FALSE

(***************************************************************************)
(* Hook and component state.                                               *)
(***************************************************************************)
VARIABLES
  biz,            \* useBusinesses: businesses, categories, loading, error, total, hasMore
  st,             \* useStores: stores, loading, error, total, hasMore
  geo,            \* useGeolocation: location, loading, error
  activeCategory, \* App: activeCategory
  filters,        \* SearchFilters: filters
  debouncedQuery, \* SearchFilters: useDebounce(filters.query, 500)
  stats,          \* App: stats
  authToken,      \* localStorage 'authToken'
  mounted,        \* which component tree is mounted: "none", "App" or "stores"
  inflight,       \* bag of the requests issued and not yet settled
  actions,        \* user actions taken so far
  calc            \* a pure function under evaluation: its arguments and result

vars == <<biz, st, geo, activeCategory, filters, debouncedQuery, stats,
          authToken, mounted, inflight, actions, calc>>

\* an error message: the parts of the template string that built it
Text(parts) == [t |-> "text", parts |-> parts]

(***************************************************************************)
(* The backend (environment): a fixed set of records, queried by category, *)
(* text, position and window.                                              *)
(***************************************************************************)
Categories == <<"grocery", "pharmacy">>
AllIds == 1..(GroceryTotal + PharmacyTotal)
CategoryOf(id) == IF id <= GroceryTotal THEN "grocery" ELSE "pharmacy"
\* the records whose name or address contains the text
TextMatches(id, q) == q = "lidl" /\ id % 2 = 0
\* where a record lies (whole degrees)
RecLat(id) == 30 + (id % 11)
RecLng(id) == 14
Abs(x) == IF x < 0 THEN -x ELSE x
WithinRadius(id, lat, lng, radius) ==
  Abs(RecLat(id) - lat) + Abs(RecLng(id) - lng) <= radius

QGet(q, k, default) == IF k \in DOMAIN q THEN ParseNum(q[k]) ELSE default

\* all records, in the order the backend lists them
AllRecords == [i \in AllIds |-> i]

\* the records a query selects, in the backend's order
QueryResult(q) ==
  LET byCategory == "category" \in DOMAIN q
      byText     == "query" \in DOMAIN q
      byPosition == "latitude" \in DOMAIN q /\ "longitude" \in DOMAIN q
      lat        == QGet(q, "latitude", 0)
      lng        == QGet(q, "longitude", 0)
      radius     == QGet(q, "radius", 5)
      Matches(id) ==
        /\ byCategory => CategoryOf(id) = q["category"]
        /\ byText => TextMatches(id, q["query"])
        /\ byPosition => WithinRadius(id, lat, lng, radius)
  IN SelectSeq(AllRecords, Matches)

Min(a, b) == IF a < b THEN a ELSE b

\* GET /api/businesses?<q> -> {businesses, total, has_more}
BusinessesEndpoint(q) ==
  LET all    == QueryResult(q)
      offset == QGet(q, "offset", 0)
      limit  == QGet(q, "limit", 50)
      page   == SubSeq(all, offset + 1, Min(offset + limit, Len(all)))
  IN [businesses |-> page,
      total      |-> Len(all),
      has_more   |-> offset + Len(page) < Len(all)]

\* the message the backend puts in the body of an error response
BackendDetail(status) ==
  CASE status = 401 -> "Not authenticated"
    [] OTHER -> "Internal Server Error"
HttpError(s) == [kind |-> "http", status |-> s, detail |-> BackendDetail(s)]
NetworkFailure == [kind |-> "network", status |-> 0, detail |-> ""]
\* what the network hands back for a request that does not succeed:
\* to a fetch() call, and to an ApiService call
FetchOutcomes == {HttpError(500), NetworkFailure}
ApiOutcomes == {HttpError(401), HttpError(500), NetworkFailure}

(***************************************************************************)
(* Serialisation of a parameter object into the request's query string.    *)
(***************************************************************************)
\* useBusinesses.fetchBusinesses: the keys appended to URLSearchParams
BizSent(params) ==
  {k \in DOMAIN params :
     IF k \in {"latitude", "longitude"}
       THEN ParseFloat(params[k]) # NaN
       ELSE params[k] # Null /\ params[k] # Undefined /\ params[k] # Str("")}

BizQueryParams(params) ==
  [k \in BizSent(params) |->
     IF k \in {"latitude", "longitude"}
       THEN JsToString(ParseFloat(params[k]))
       ELSE JsToString(params[k])]

\* axios `params`: null and undefined are skipped, every other value is sent
AxiosQueryParams(params) ==
  [k \in {k \in DOMAIN params : params[k] # Null /\ params[k] # Undefined}
     |-> JsToString(params[k])]

(***************************************************************************)
(* useBusinesses.                                                          *)
(***************************************************************************)
\* fetchBusinesses up to its await: setLoading(true); setError(null)
FetchBusinessesBegin(h) == [h EXCEPT !.loading = TRUE, !.error = Null]

\* params.offset === 0 || !params.offset
IsNewSearch(params) ==
  \/ "offset" \notin DOMAIN params
  \/ params["offset"] = Num(0)
  \/ ~Truthy(params["offset"])

\* (mutation) has_more taken from the response only when the list is replaced
FetchBusinessesSuccess_StaleHasMore(h, params, data) ==
  [h EXCEPT
     !.businesses = IF IsNewSearch(params)
                      THEN data.businesses
                      ELSE h.businesses \o data.businesses,
     !.total   = data.total,
     !.hasMore = IF IsNewSearch(params) THEN data.has_more ELSE h.hasMore,
     !.loading = FALSE]

\* (mutation) a replacing answer is dropped when another answer has already
\* ended loading: the first arrival wins
FetchBusinessesSuccess_FirstWins(h, params, data) ==
  IF IsNewSearch(params) /\ ~h.loading
    THEN h
    ELSE [h EXCEPT
            !.businesses = IF IsNewSearch(params)
                             THEN data.businesses
                             ELSE h.businesses \o data.businesses,
            !.total   = data.total,
            !.hasMore = data.has_more,
            !.loading = FALSE]
\* fetchBusinesses after a response with response.ok
FetchBusinessesSuccess(h, params, data) ==
  [h EXCEPT
     !.businesses = IF IsNewSearch(params)
                      THEN data.businesses
                      ELSE h.businesses \o data.businesses,
     !.total   = data.total,
     !.hasMore = data.has_more,
     !.loading = FALSE]

\* fetchBusinesses' catch and finally
FetchBusinessesFailure(h, err) ==
  [h EXCEPT !.error = err.message, !.loading = FALSE]

\* what fetch() and the `!response.ok` check throw for an outcome
FetchError(what, outcome) ==
  IF outcome.kind = "http"
    THEN [name |-> "Error",
          message |-> Text(<<what, ToString(outcome.status)>>),
          response |-> Undefined]
    ELSE [name |-> "TypeError",
          message |-> Text(<<"Failed to fetch">>),
          response |-> Undefined]

\* searchBusinesses: { offset: 0, limit: 50, ...searchParams }
SearchBusinessesParams(searchParams) ==
  Spread([offset |-> Num(0), limit |-> Num(50)], searchParams)

\* getNearbyBusinesses(lat, lng, radius, category)
NearbyBusinessesParams(lat, lng, radius, category) ==
  LET params == [latitude |-> lat, longitude |-> lng, radius |-> radius,
                 limit |-> Num(100), offset |-> Num(0)]
  IN IF Truthy(category) THEN Spread(params, [category |-> category]) ELSE params

(***************************************************************************)
(* Requests in flight.                                                     *)
(***************************************************************************)
NoCtx == [location |-> Null, radius |-> 0, category |-> ""]

\* a request: the endpoint (op), how it is sent (fetch, axios or the
\* platform's geolocation), the parameter object given to the hook, the
\* query string sent, who issued it (src), the issuer's closure (ctx) and
\* and the Authorization header (auth)
Req(op, transport, params, query, src, ctx) ==
  [op |-> op, transport |-> transport, params |-> params,
   query |-> query, src |-> src, ctx |-> ctx, auth |-> Null]

BizReq(params, src) ==
  Req("businesses", "fetch", params, BizQueryParams(params), src, NoCtx)

\* one more user action fits the run
UserAction ==
  /\ actions < MaxUserActions
  /\ actions' = actions + 1

(***************************************************************************)
(* SearchFilters and App.                                                  *)
(***************************************************************************)
InitialFilters(category) ==
  [query |-> "", category |-> category, min_rating |-> "",
   max_price_level |-> "", radius |-> "5000"]

\* the search effect's searchParams, undefined values deleted
SearchParams(f) ==
  LET all == [query    |-> IF f.query # "" THEN Str(f.query) ELSE Undefined,
              category |-> IF f.category # "" THEN Str(f.category) ELSE Undefined,
              min_rating |-> IF f.min_rating # ""
                               THEN ParseFloat(Str(f.min_rating)) ELSE Undefined,
              max_price_level |-> IF f.max_price_level # ""
                               THEN ParseFloat(Str(f.max_price_level)) ELSE Undefined,
              radius   |-> Num(ParseNum(f.radius) \div 1000)]
  IN [k \in {k \in DOMAIN all : all[k] # Undefined} |-> all[k]]

\* (mutation) handleSearch passes searchParams on without the active category
HandleSearchParams_NoCategory(searchParams, category) ==
  SearchBusinessesParams(searchParams)

\* App.handleSearch: { ...searchParams, category: activeCategory }
HandleSearchParams(searchParams, category) ==
  SearchBusinessesParams(Spread(searchParams, [category |-> Str(category)]))

\* the requests SearchFilters' search effect issues when it runs with
\* filters f, debounced query dq and App's category
SearchEffect(f, dq, category) ==
  IF dq # f.query THEN EmptyBag
  ELSE SetToBag({BizReq(HandleSearchParams(SearchParams(f), category), "search")})

\* App's effect on [activeCategory]: fetchBusinesses({ category, limit: 50 })
LoadInitialData(category) ==
  BizReq([category |-> Str(category), limit |-> Num(50)], "appEffect")

\* BusinessList: which of its four returns renders
BusinessListView(h) ==
  IF h.loading /\ Len(h.businesses) = 0 THEN "loading"
  ELSE IF h.error # Null THEN "error"
  ELSE IF ~h.loading /\ Len(h.businesses) = 0 THEN "empty"
  ELSE "list"

\* CategoryTabs: loading, error or the tabs with their children
CategoryTabsView(h) ==
  IF Len(h.categories) = 0 /\ h.loading THEN "loading"
  ELSE IF h.error # Null THEN "error"
  ELSE "tabs"

\* the Load More button is rendered and enabled
LoadMoreOffered(h) ==
  /\ CategoryTabsView(h) = "tabs"
  /\ BusinessListView(h) = "list"
  /\ h.hasMore
  /\ ~h.loading

(***************************************************************************)
(* ApiService: the axios instance, its interceptors and its calls.         *)
(***************************************************************************)
\* api.interceptors.request: Authorization is set when a token is stored
RequestInterceptor(r, token) ==
  IF Truthy(token) THEN [r EXCEPT !.auth = token] ELSE r

ApiReq(op, params, query, src, token) ==
  RequestInterceptor(Req(op, "axios", params, query, src, NoCtx), token)

\* the error axios rejects with for an outcome
AxiosError(outcome) ==
  CASE outcome.kind = "http" ->
         [name |-> "AxiosError",
          message |-> Text(<<"Request failed with status code ",
                             ToString(outcome.status)>>),
          response |-> [status |-> outcome.status,
                        data |-> [detail |-> outcome.detail]]]
    [] outcome.kind = "timeout" ->
         [name |-> "AxiosError",
          message |-> Text(<<"timeout of ", "10000", "ms exceeded">>),
          response |-> Undefined]
    [] OTHER ->
         [name |-> "AxiosError",
          message |-> Text(<<"Network Error">>),
          response |-> Undefined]

\* (mutation) the token is removed on every error response
ResponseInterceptor_AnyStatus(token, err) ==
  IF err.response # Undefined THEN Null ELSE token

\* api.interceptors.response, error branch: the stored token afterwards
ResponseInterceptor(token, err) ==
  IF err.response # Undefined /\ err.response.status = 401 THEN Null ELSE token

\* ApiService.getAllStores(params): { skip = 0, limit = 50 }
GetAllStoresQuery(params) ==
  AxiosQueryParams(
    [skip  |-> IF "skip" \in DOMAIN params /\ params["skip"] # Undefined
                 THEN params["skip"] ELSE Num(0),
     limit |-> IF "limit" \in DOMAIN params /\ params["limit"] # Undefined
                 THEN params["limit"] ELSE Num(50)])

\* ApiService.searchStores(searchParams)
SearchStoresQuery(searchParams) == AxiosQueryParams(searchParams)

\* ApiService.getNearbyStores(latitude, longitude, radius = 5000, limit = 20)
GetNearbyStoresQuery(latitude, longitude) ==
  AxiosQueryParams([latitude |-> latitude, longitude |-> longitude,
                    radius |-> Num(5000), limit |-> Num(20)])

\* GET /api/stores and /api/stores/search -> {stores, total, has_more}
StoresEndpoint(q) ==
  LET all    == QueryResult(Spread(q, [category |-> "grocery"]))
      skip   == QGet(q, "skip", 0)
      limit  == QGet(q, "limit", 50)
      page   == SubSeq(all, skip + 1, Min(skip + limit, Len(all)))
  IN [stores   |-> page,
      total    |-> Len(all),
      has_more |-> skip + Len(page) < Len(all)]

\* GET /api/stores/nearby -> a flat list
NearbyStoresEndpoint(q) ==
  LET all == QueryResult([category |-> "grocery",
                          latitude |-> q["latitude"],
                          longitude |-> q["longitude"],
                          radius |-> ToString(ParseNum(q["radius"]) \div 1000)])
  IN SubSeq(all, 1, Min(QGet(q, "limit", 20), Len(all)))

(***************************************************************************)
(* useStores.                                                              *)
(***************************************************************************)
\* setLoading(true); setError(null)
StoresBegin(h) == [h EXCEPT !.loading = TRUE, !.error = Null]

\* fetchStores / searchStores after the call resolves
StoresSuccess(h, params, result) ==
  [h EXCEPT !.stores = result.stores, !.total = result.total,
            !.hasMore = result.has_more, !.loading = FALSE]

\* (mutation) the total of the previous result is kept
NearbyStoresSuccess_KeepsTotal(h, result) ==
  [h EXCEPT !.stores = result, !.hasMore = FALSE, !.loading = FALSE]
\* getNearbyStores after the call resolves
NearbyStoresSuccess(h, result) ==
  [h EXCEPT !.stores = result, !.total = Len(result),
            !.hasMore = FALSE, !.loading = FALSE]

\* err.message || fallback
MessageOr(err, fallback) ==
  IF err.message = Text(<<"">>) \/ err.message = Text(<<>>)
    THEN Text(<<fallback>>) ELSE err.message

\* the catch and finally of fetchStores, searchStores and getNearbyStores
StoresFailure(h, err, fallback) ==
  [h EXCEPT !.error = MessageOr(err, fallback), !.stores = <<>>,
            !.loading = FALSE]

StoresFallback(op) ==
  CASE op = "stores" -> "Failed to fetch stores"
    [] op = "storesSearch" -> "Failed to search stores"
    [] OTHER -> "Failed to fetch nearby stores"

(***************************************************************************)
(* useGeolocation.                                                         *)
(***************************************************************************)
\* GeolocationPositionError codes: 1 PERMISSION_DENIED, 2 POSITION_UNAVAILABLE,
\* 3 TIMEOUT; any other code is the default branch
GeoCodes == {0, 1, 2, 3}
Positions == {[lat |-> 35, lng |-> 14], [lat |-> 36, lng |-> 14]}

\* (mutation) the TIMEOUT case is missing and falls through to the default
GeolocationMessage_NoTimeout(code) ==
  CASE code = 1 -> "Location access denied by user"
    [] code = 2 -> "Location information unavailable"
    [] OTHER -> "Unknown geolocation error"

\* hooks/useGeolocation: the message of the rejected promise
GeolocationMessage(code) ==
  CASE code = 1 -> "Location access denied by user"
    [] code = 2 -> "Location information unavailable"
    [] code = 3 -> "Location request timed out"
    [] OTHER -> "Unknown geolocation error"

\* googleMapsService.getCurrentLocation: the message of the rejected promise
ServiceGeolocationMessage(code) ==
  CASE code = 1 -> "Location access denied. Please enable location services."
    [] code = 2 -> "Location information is unavailable."
    [] code = 3 -> "Location request timed out."
    [] OTHER -> "An unknown error occurred while retrieving location."

\* the message for the hook that issued request r
GeoMessageFor(r, code) ==
  IF r.src = "service" THEN ServiceGeolocationMessage(code)
  ELSE GeolocationMessage(code)

\* getCurrentLocation up to its await
GeoBegin(g) == [g EXCEPT !.loading = TRUE, !.error = Null]
\* setLocation(position), finally
GeoSuccess(g, position) == [g EXCEPT !.location = position, !.loading = FALSE]
\* catch: setError(err.message); setLocation(null), finally
GeoFailure(g, message) ==
  [g EXCEPT !.error = Text(<<message>>), !.location = Null, !.loading = FALSE]

GeoReq(src, ctx) == Req("geo", "platform", EmptyObj, EmptyObj, src, ctx)

(***************************************************************************)
(* Initial state: the hooks' useState defaults, nothing mounted yet.       *)
(***************************************************************************)
HooksInit ==
  /\ biz = [businesses |-> <<>>, categories |-> <<>>, loading |-> FALSE,
            error |-> Null, total |-> 0, hasMore |-> FALSE]
  /\ st = [stores |-> <<>>, loading |-> FALSE, error |-> Null,
           total |-> 0, hasMore |-> FALSE]
  /\ geo = [location |-> Null, loading |-> FALSE, error |-> Null]
  /\ activeCategory = "grocery"
  /\ filters = InitialFilters("grocery")
  /\ debouncedQuery = ""
  /\ stats = Null
  \* localStorage outlives the page: a token is stored
  /\ authToken = Str("token")
  /\ mounted = "none"
  /\ inflight = EmptyBag
  /\ actions = 0

\* no pure function is under evaluation
Idle == [fn |-> "none"]

Init == HooksInit /\ calc = Idle

\* the requests in `issued` go out
Issue(issued) == inflight' = inflight (+) issued

\* request r is answered (or fails) and its continuation issues `issued`
Settle(r, issued) ==
  /\ inflight' = (inflight (-) SetToBag({r})) (+) issued
  /\ UNCHANGED actions

CategoriesReq ==
  Req("categories", "fetch", EmptyObj, EmptyObj, "hook", NoCtx)

(***************************************************************************)
(* App: mount and user actions.                                            *)
(***************************************************************************)
\* first render of App: SearchFilters' search effect, useBusinesses' effect
\* (fetchCategories), then App's loadInitialData effect
Mount ==
  /\ mounted = "none"
  /\ LET issued == SearchEffect(filters, debouncedQuery, activeCategory)
                     (+) SetToBag({CategoriesReq})
                     (+) SetToBag({LoadInitialData(activeCategory)})
     IN Issue(issued)
  /\ mounted' = "App"
  /\ UNCHANGED actions
  /\ biz' = FetchBusinessesBegin(biz)
  /\ UNCHANGED <<calc, st, geo, activeCategory, filters, debouncedQuery, stats, authToken>>

\* a component that uses useStores (and the map hooks' useGeolocation) mounts
MountStores ==
  /\ mounted = "none"
  /\ mounted' = "stores"
  /\ UNCHANGED <<calc, biz, st, geo, activeCategory, filters, debouncedQuery, stats,
                 authToken, inflight, actions>>

\* typing in the search box: handleFilterChange('query', text); the search
\* effect runs and returns early unless the text equals the debounced one
EditQuery(text) ==
  /\ mounted = "App"
  /\ text # filters.query
  /\ UserAction
  /\ LET f == [filters EXCEPT !.query = text]
         issued == SearchEffect(f, debouncedQuery, activeCategory)
     IN /\ filters' = f
        /\ Issue(issued)
        /\ biz' = IF issued = EmptyBag THEN biz ELSE FetchBusinessesBegin(biz)
  /\ UNCHANGED <<calc, st, geo, activeCategory, debouncedQuery, stats, authToken, mounted>>

\* useDebounce's timer expires: debouncedQuery catches up, the effect runs
DebounceFire ==
  /\ mounted = "App"
  /\ debouncedQuery # filters.query
  /\ UNCHANGED actions
  /\ debouncedQuery' = filters.query
  /\ LET issued == SearchEffect(filters, filters.query, activeCategory)
     IN Issue(issued)
  /\ biz' = FetchBusinessesBegin(biz)
  /\ UNCHANGED <<calc, st, geo, activeCategory, filters, stats, authToken, mounted>>

\* the requests of a category change: render with the new activeCategory
\* (search effect, since onSearch changed; then loadInitialData), then, if
\* the sync effect changed filters.category, the search effect once more
CategoryChangeRequests(f, c) ==
  LET s1 == SearchEffect(f, debouncedQuery, c)
      f2 == [f EXCEPT !.category = c]
      s2 == IF f2 # f THEN SearchEffect(f2, debouncedQuery, c) ELSE EmptyBag
  IN s1 (+) SetToBag({LoadInitialData(c)}) (+) s2

\* CategoryTabs.handleTabClick(c) -> App.handleCategoryChange(c)
CategoryChangeTab(c) ==
  /\ mounted = "App"
  /\ CategoryTabsView(biz) = "tabs"
  /\ \E i \in 1..Len(biz.categories) : biz.categories[i] = c
  /\ c # activeCategory
  /\ UserAction
  /\ activeCategory' = c
  /\ filters' = [filters EXCEPT !.category = c]
  /\ LET issued == CategoryChangeRequests(filters, c)
     IN Issue(issued)
  /\ biz' = FetchBusinessesBegin(biz)
  /\ UNCHANGED <<calc, st, geo, debouncedQuery, stats, authToken, mounted>>

\* SearchFilters' category select: handleFilterChange('category', c) and
\* onCategoryChange(c) in one update
CategoryChangeSelect(c) ==
  /\ mounted = "App"
  /\ \E i \in 1..Len(biz.categories) : biz.categories[i] = c
  /\ c # filters.category
  /\ UserAction
  /\ activeCategory' = c
  /\ filters' = [filters EXCEPT !.category = c]
  /\ LET issued == CategoryChangeRequests(filters', c)
     IN Issue(issued)
  /\ biz' = FetchBusinessesBegin(biz)
  /\ UNCHANGED <<calc, st, geo, debouncedQuery, stats, authToken, mounted>>

\* App.handleLoadMore, from BusinessList's Load More button
LoadMore ==
  /\ mounted = "App"
  /\ LoadMoreOffered(biz)
  /\ UserAction
  /\ LET issued == SetToBag({BizReq([category |-> Str(activeCategory),
                                     offset   |-> Num(Len(biz.businesses)),
                                     limit    |-> Num(50)], "loadMore")})
     IN Issue(issued)
  /\ biz' = FetchBusinessesBegin(biz)
  /\ UNCHANGED <<calc, st, geo, activeCategory, filters, debouncedQuery, stats,
                 authToken, mounted>>

\* SearchFilters.handleLocationSearch -> App.handleLocationSearch(radius):
\* getCurrentLocation() starts; userLocation, the radius and the category
\* are those of the render the click was made in
NearMe ==
  /\ mounted = "App"
  /\ ~geo.loading
  /\ UserAction
  /\ LET ctx == [location |-> geo.location,
                 radius   |-> ParseNum(filters.radius),
                 category |-> activeCategory]
         issued == SetToBag({GeoReq("hook", ctx)})
     IN Issue(issued)
  /\ geo' = GeoBegin(geo)
  /\ UNCHANGED <<calc, biz, st, activeCategory, filters, debouncedQuery, stats,
                 authToken, mounted>>

\* what handleLocationSearch does once getCurrentLocation() has returned:
\* if (userLocation) getNearbyBusinesses(lat, lng, radius / 1000, category)
AfterLocation(r) ==
  IF r.src = "hook" /\ r.ctx.location # Null
    THEN SetToBag({BizReq(NearbyBusinessesParams(Num(r.ctx.location.lat),
                                                 Num(r.ctx.location.lng),
                                                 Num(r.ctx.radius \div 1000),
                                                 Str(r.ctx.category)), "nearby")})
    ELSE EmptyBag

\* the platform reports a position
GeoOk(r, position) ==
  /\ BagIn(r, inflight) /\ r.op = "geo"
  /\ geo' = GeoSuccess(geo, position)
  /\ LET issued == AfterLocation(r)
     IN /\ Settle(r, issued)
        /\ biz' = IF issued = EmptyBag THEN biz ELSE FetchBusinessesBegin(biz)
  /\ UNCHANGED <<calc, st, activeCategory, filters, debouncedQuery, stats,
                 authToken, mounted>>

\* the platform reports a failure with a code
GeoFail(r, code) ==
  /\ BagIn(r, inflight) /\ r.op = "geo"
  /\ geo' = GeoFailure(geo, GeoMessageFor(r, code))
  /\ LET issued == AfterLocation(r)
     IN /\ Settle(r, issued)
        /\ biz' = IF issued = EmptyBag THEN biz ELSE FetchBusinessesBegin(biz)
  /\ UNCHANGED <<calc, st, activeCategory, filters, debouncedQuery, stats,
                 authToken, mounted>>

(***************************************************************************)
(* Responses to useBusinesses' fetch() calls.                              *)
(***************************************************************************)
\* (mutation) a fetch that was not loadInitialData's is issued again once
\* it has returned
AfterFetch_Retry(r) ==
  IF r.src = "appEffect"
    THEN SetToBag({ApiReq("stats", EmptyObj, EmptyObj, "appEffect", authToken)})
    ELSE SetToBag({BizReq(r.params, "retry")})

\* loadInitialData goes on to apiService.getStoreStats() once
\* fetchBusinesses has returned (it returns on failure too)
AfterFetch(r) ==
  IF r.src = "appEffect"
    THEN SetToBag({ApiReq("stats", EmptyObj, EmptyObj, "appEffect", authToken)})
    ELSE EmptyBag

BizOk(r) ==
  /\ BagIn(r, inflight) /\ r.op = "businesses"
  /\ biz' = FetchBusinessesSuccess(biz, r.params, BusinessesEndpoint(r.query))
  /\ LET issued == AfterFetch(r)
     IN Settle(r, issued)
  /\ UNCHANGED <<calc, st, geo, activeCategory, filters, debouncedQuery, stats,
                 authToken, mounted>>

BizFail(r, outcome) ==
  /\ BagIn(r, inflight) /\ r.op = "businesses"
  /\ LET err == FetchError("Failed to fetch businesses: ", outcome)
         issued == AfterFetch(r)
     IN /\ biz' = FetchBusinessesFailure(biz, err)
        /\ Settle(r, issued)
  /\ UNCHANGED <<calc, st, geo, activeCategory, filters, debouncedQuery, stats,
                 authToken, mounted>>

\* fetchCategories: setCategories(data.categories || [])
CategoriesOk(r) ==
  /\ BagIn(r, inflight) /\ r.op = "categories"
  /\ biz' = [biz EXCEPT !.categories = Categories]
  /\ Settle(r, EmptyBag)
  /\ UNCHANGED <<calc, st, geo, activeCategory, filters, debouncedQuery, stats,
                 authToken, mounted>>

\* (mutation) the catch also empties the list, as useStores' catch does
CategoriesFail_ClearsList(r, outcome) ==
  /\ BagIn(r, inflight) /\ r.op = "categories"
  /\ LET err == FetchError("Failed to fetch categories: ", outcome)
     IN /\ biz' = [biz EXCEPT !.error = err.message, !.businesses = <<>>]
  /\ Settle(r, EmptyBag)
  /\ UNCHANGED <<calc, st, geo, activeCategory, filters, debouncedQuery, stats,
                 authToken, mounted>>
\* fetchCategories' catch: setError(err.message)
CategoriesFail(r, outcome) ==
  /\ BagIn(r, inflight) /\ r.op = "categories"
  /\ LET err == FetchError("Failed to fetch categories: ", outcome)
     IN /\ biz' = [biz EXCEPT !.error = err.message]
  /\ Settle(r, EmptyBag)
  /\ UNCHANGED <<calc, st, geo, activeCategory, filters, debouncedQuery, stats,
                 authToken, mounted>>

(***************************************************************************)
(* Responses to ApiService calls.                                          *)
(***************************************************************************)
\* GET /api/stores/stats/overview answered: setStats(statsData)
StatsOk(r) ==
  /\ BagIn(r, inflight) /\ r.op = "stats"
  /\ stats' = [total_stores |-> GroceryTotal]
  /\ Settle(r, EmptyBag)
  /\ UNCHANGED <<calc, biz, st, geo, activeCategory, filters, debouncedQuery,
                 authToken, mounted>>

\* a failed ApiService call that no hook wraps (getStoreStats from App,
\* refreshStoresData): the response interceptor; the rejection goes to the
\* caller (loadInitialData's inner catch logs it)
StatsSettle(r, outcome) ==
  LET err == AxiosError(outcome)
  IN /\ authToken' = ResponseInterceptor(authToken, err)
     /\ Settle(r, EmptyBag)
     /\ UNCHANGED <<calc, biz, st, geo, activeCategory, filters, debouncedQuery,
                    stats, mounted>>

\* a failed ApiService call of useStores: the response interceptor, then
\* the hook's catch and finally
StoresSettle(r, outcome) ==
  LET err == AxiosError(outcome)
  IN /\ authToken' = ResponseInterceptor(authToken, err)
     /\ st' = StoresFailure(st, err, StoresFallback(r.op))
     /\ Settle(r, EmptyBag)
     /\ UNCHANGED <<calc, biz, geo, activeCategory, filters, debouncedQuery,
                    stats, mounted>>

StatsFail(r, outcome) ==
  /\ BagIn(r, inflight) /\ r.op = "stats"
  /\ StatsSettle(r, outcome)

StoresOps == {"stores", "storesSearch", "storesNearby"}

StoresFail(r, outcome) ==
  /\ BagIn(r, inflight) /\ r.op \in StoresOps
  /\ StoresSettle(r, outcome)

StoresOk(r) ==
  /\ BagIn(r, inflight) /\ r.op \in StoresOps
  /\ st' = IF r.op = "storesNearby"
             THEN NearbyStoresSuccess(st, NearbyStoresEndpoint(r.query))
             ELSE StoresSuccess(st, r.params, StoresEndpoint(r.query))
  /\ Settle(r, EmptyBag)
  /\ UNCHANGED <<calc, biz, geo, activeCategory, filters, debouncedQuery, stats,
                 authToken, mounted>>

\* axios' timeout (10000 ms) expires before an answer was delivered
AxiosTimeout(r) ==
  /\ BagIn(r, inflight) /\ r.transport = "axios"
  /\ LET outcome == [kind |-> "timeout", status |-> 0, detail |-> ""]
     IN IF r.op \in {"stats", "storesRefresh"} THEN StatsSettle(r, outcome)
        ELSE StoresSettle(r, outcome)

(***************************************************************************)
(* A component using useStores: calls of the hook's operations.            *)
(***************************************************************************)
\* parameter objects handed to fetchStores
FetchStoresInputs ==
  {EmptyObj, [skip |-> Num(Len(st.stores)), limit |-> Num(50)]}

\* filter objects handed to searchStores
SearchStoresInputs ==
  {[query |-> Str("lidl")],
   [query |-> Str(""), min_rating |-> Num(4)],
   [query |-> Null, max_price_level |-> Undefined, radius |-> Num(5)]}

FetchStores(params) ==
  /\ mounted = "stores"
  /\ UserAction
  /\ st' = StoresBegin(st)
  /\ LET issued == SetToBag({ApiReq("stores", params, GetAllStoresQuery(params),
                                    "hook", authToken)})
     IN Issue(issued)
  /\ UNCHANGED <<calc, biz, geo, activeCategory, filters, debouncedQuery, stats,
                 authToken, mounted>>

SearchStores(searchParams) ==
  /\ mounted = "stores"
  /\ UserAction
  /\ st' = StoresBegin(st)
  /\ LET issued == SetToBag({ApiReq("storesSearch", searchParams,
                                    SearchStoresQuery(searchParams), "hook", authToken)})
     IN Issue(issued)
  /\ UNCHANGED <<calc, biz, geo, activeCategory, filters, debouncedQuery, stats,
                 authToken, mounted>>

GetNearbyStores(position) ==
  /\ mounted = "stores"
  /\ UserAction
  /\ st' = StoresBegin(st)
  /\ LET params == [latitude |-> Num(position.lat), longitude |-> Num(position.lng)]
         issued == SetToBag({ApiReq("storesNearby", params,
                                    GetNearbyStoresQuery(params.latitude, params.longitude),
                                    "hook", authToken)})
     IN Issue(issued)
  /\ UNCHANGED <<calc, biz, geo, activeCategory, filters, debouncedQuery, stats,
                 authToken, mounted>>

\* getCurrentLocation of the map hooks' useGeolocation (googleMapsService)
ServiceGetCurrentLocation ==
  /\ mounted = "stores"
  /\ UserAction
  /\ geo' = GeoBegin(geo)
  /\ LET issued == SetToBag({GeoReq("service", NoCtx)})
     IN Issue(issued)
  /\ UNCHANGED <<calc, biz, st, activeCategory, filters, debouncedQuery, stats,
                 authToken, mounted>>

(***************************************************************************)
(* A component using useBusinesses directly: fetchBusinesses and           *)
(* refreshBusinesses, and response bodies of an unexpected shape.          *)
(***************************************************************************)
\* the hook's effect runs fetchCategories
MountBusinesses ==
  /\ mounted = "none"
  /\ mounted' = "businesses"
  /\ biz' = [biz EXCEPT !.error = Null]
  /\ Issue(SetToBag({CategoriesReq}))
  /\ UNCHANGED <<calc, st, geo, activeCategory, filters, debouncedQuery, stats,
                 authToken, actions>>

\* fetchBusinesses({ category, limit: 50 })
FetchBusinesses(c) ==
  /\ mounted = "businesses"
  /\ UserAction
  /\ biz' = FetchBusinessesBegin(biz)
  /\ Issue(SetToBag({BizReq([category |-> Str(c), limit |-> Num(50)], "consumer")}))
  /\ UNCHANGED <<calc, st, geo, activeCategory, filters, debouncedQuery, stats,
                 authToken, mounted>>

\* POST /api/businesses/refresh/${category}
RefreshReq(c) ==
  Req("refresh", "fetch", [category |-> Str(c)], EmptyObj, "hook", NoCtx)

\* the timer refreshBusinesses sets: after 2000 ms,
\* fetchBusinesses({ category, limit: 50, offset: 0 })
RefreshTimer(category) ==
  Req("refreshTimer", "timer",
      [category |-> category, limit |-> Num(50), offset |-> Num(0)],
      EmptyObj, "hook", NoCtx)

\* refreshBusinesses(c) up to its await: setError(null), the POST goes out
RefreshBusinesses(c) ==
  /\ mounted = "businesses"
  /\ UserAction
  /\ biz' = [biz EXCEPT !.error = Null]
  /\ Issue(SetToBag({RefreshReq(c)}))
  /\ UNCHANGED <<calc, st, geo, activeCategory, filters, debouncedQuery, stats,
                 authToken, mounted>>

\* the trigger is answered with response.ok: the timer is set and the call
\* returns the body
RefreshOk(r) ==
  /\ BagIn(r, inflight) /\ r.op = "refresh"
  /\ Settle(r, SetToBag({RefreshTimer(r.params.category)}))
  /\ UNCHANGED <<calc, biz, st, geo, activeCategory, filters, debouncedQuery,
                 stats, authToken, mounted>>

\* the trigger fails: setError(err.message); throw err
RefreshFail(r, outcome) ==
  /\ BagIn(r, inflight) /\ r.op = "refresh"
  /\ LET err == FetchError("Failed to refresh businesses: ", outcome)
     IN biz' = [biz EXCEPT !.error = err.message]
  /\ Settle(r, EmptyBag)
  /\ UNCHANGED <<calc, st, geo, activeCategory, filters, debouncedQuery, stats,
                 authToken, mounted>>

\* the 2000 ms timer fires: fetchBusinesses({ category, limit: 50, offset: 0 })
RefetchTimer(t) ==
  /\ BagIn(t, inflight) /\ t.op = "refreshTimer"
  /\ biz' = FetchBusinessesBegin(biz)
  /\ Settle(t, SetToBag({BizReq(t.params, "refresh")}))
  /\ UNCHANGED <<calc, st, geo, activeCategory, filters, debouncedQuery, stats,
                 authToken, mounted>>

\* fetchCategories() called by the component: setError(null), the GET goes out
FetchCategories ==
  /\ mounted = "businesses"
  /\ UserAction
  /\ biz' = [biz EXCEPT !.error = Null]
  /\ Issue(SetToBag({CategoriesReq}))
  /\ UNCHANGED <<calc, st, geo, activeCategory, filters, debouncedQuery, stats,
                 authToken, mounted>>

\* GET /api/businesses/stats, with ?category=... when a category is given
BusinessStatsReq(category) ==
  Req("businessStats", "fetch", [category |-> category],
      IF Truthy(category) THEN [category |-> category.s] ELSE EmptyObj,
      "hook", NoCtx)

\* getBusinessStats(category) up to its await
GetBusinessStats(category) ==
  /\ mounted = "businesses"
  /\ UserAction
  /\ Issue(SetToBag({BusinessStatsReq(category)}))
  /\ UNCHANGED <<calc, biz, st, geo, activeCategory, filters, debouncedQuery,
                 stats, authToken, mounted>>

\* getBusinessStats returns the body, or logs and rethrows: in both cases
\* no state of the hook is set
BusinessStatsSettle(r) ==
  /\ BagIn(r, inflight) /\ r.op = "businessStats"
  /\ Settle(r, EmptyBag)
  /\ UNCHANGED <<calc, biz, st, geo, activeCategory, filters, debouncedQuery,
                 stats, authToken, mounted>>

BusinessStatsOk(r) == BusinessStatsSettle(r)

BusinessStatsFail(r, outcome) ==
  /\ outcome \in FetchOutcomes
  /\ BusinessStatsSettle(r)
\* bodies of a 200 response that are not {businesses: [...], total, has_more}:
\* null, {} and {businesses: "0"}
MalformedBodies == {"null", "noField", "notList"}

\* the string "0" held where an array is expected: it has a length (1) and
\* no map(); 0 is the id of no record
NotAList == <<0>>

\* fetchBusinesses after response.json() gave such a body: reading
\* null.businesses throws into the catch; otherwise data.businesses || [],
\* data.total || 0 and data.has_more || false go into the state
FetchBusinessesMalformed(h, params, body) ==
  CASE body = "null" ->
         FetchBusinessesFailure(h,
           [name |-> "TypeError",
            message |-> Text(<<"Cannot read properties of null (reading 'businesses')">>),
            response |-> Undefined])
    [] body = "noField" ->
         FetchBusinessesSuccess(h, params,
           [businesses |-> <<>>, total |-> 0, has_more |-> FALSE])
    [] OTHER ->
         FetchBusinessesSuccess(h, params,
           [businesses |-> NotAList, total |-> 0, has_more |-> FALSE])

\* a fetchBusinesses call of the component is answered 200 with such a body
BizMalformed(r, body) ==
  /\ BagIn(r, inflight) /\ r.op = "businesses" /\ r.src = "consumer"
  /\ biz' = FetchBusinessesMalformed(biz, r.params, body)
  /\ Settle(r, AfterFetch(r))
  /\ UNCHANGED <<calc, st, geo, activeCategory, filters, debouncedQuery, stats,
                 authToken, mounted>>

\* BusinessList given the hook's state: the list branch calls
\* businesses.map(), which a value that is not an array does not have
BusinessListRender(h) ==
  IF BusinessListView(h) = "list" /\ h.businesses = NotAList
    THEN "crash" ELSE BusinessListView(h)

(***************************************************************************)
(* ApiService.refreshStoresData, called next to useStores.                 *)
(***************************************************************************)
\* api.post('/api/stores/refresh', { force_refresh: forceRefresh })
RefreshStoresData(forceRefresh) ==
  /\ mounted = "stores"
  /\ UserAction
  /\ Issue(SetToBag({ApiReq("storesRefresh", [force_refresh |-> forceRefresh],
                            EmptyObj, "service", authToken)}))
  /\ UNCHANGED <<calc, biz, st, geo, activeCategory, filters, debouncedQuery,
                 stats, authToken, mounted>>

\* the trigger is answered: return response.data
RefreshStoresOk(r) ==
  /\ BagIn(r, inflight) /\ r.op = "storesRefresh"
  /\ Settle(r, EmptyBag)
  /\ UNCHANGED <<calc, biz, st, geo, activeCategory, filters, debouncedQuery,
                 stats, authToken, mounted>>

RefreshStoresFail(r, outcome) ==
  /\ BagIn(r, inflight) /\ r.op = "storesRefresh"
  /\ StatsSettle(r, outcome)

Next ==
  \/ Mount
  \/ MountStores
  \/ \E text \in {"", "lidl"} : EditQuery(text)
  \/ DebounceFire
  \/ \E c \in {"grocery", "pharmacy"} : CategoryChangeTab(c)
  \/ \E c \in {"grocery", "pharmacy"} : CategoryChangeSelect(c)
  \/ LoadMore
  \/ NearMe
  \/ \E r \in BagToSet(inflight), position \in Positions : GeoOk(r, position)
  \/ \E r \in BagToSet(inflight), code \in GeoCodes : GeoFail(r, code)
  \/ \E r \in BagToSet(inflight) : BizOk(r)
  \/ \E r \in BagToSet(inflight), outcome \in FetchOutcomes : BizFail(r, outcome)
  \/ \E r \in BagToSet(inflight) : CategoriesOk(r)
  \/ \E r \in BagToSet(inflight), outcome \in FetchOutcomes : CategoriesFail(r, outcome)
  \/ \E r \in BagToSet(inflight) : StatsOk(r)
  \/ \E r \in BagToSet(inflight), outcome \in ApiOutcomes : StatsFail(r, outcome)
  \/ \E r \in BagToSet(inflight) : StoresOk(r)
  \/ \E r \in BagToSet(inflight), outcome \in ApiOutcomes : StoresFail(r, outcome)
  \/ \E r \in BagToSet(inflight) : AxiosTimeout(r)
  \/ \E params \in FetchStoresInputs : FetchStores(params)
  \/ \E searchParams \in SearchStoresInputs : SearchStores(searchParams)
  \/ \E position \in Positions : GetNearbyStores(position)
  \/ ServiceGetCurrentLocation
  \/ MountBusinesses
  \/ \E c \in {"grocery", "pharmacy"} : FetchBusinesses(c)
  \/ \E c \in {"grocery", "pharmacy"} : RefreshBusinesses(c)
  \/ \E r \in BagToSet(inflight) : RefreshOk(r)
  \/ \E r \in BagToSet(inflight), outcome \in FetchOutcomes : RefreshFail(r, outcome)
  \/ \E t \in BagToSet(inflight) : RefetchTimer(t)
  \/ \E r \in BagToSet(inflight), body \in MalformedBodies : BizMalformed(r, body)
  \/ \E forceRefresh \in {Bool(FALSE), Bool(TRUE)} : RefreshStoresData(forceRefresh)
  \/ \E r \in BagToSet(inflight) : RefreshStoresOk(r)
  \/ \E r \in BagToSet(inflight), outcome \in ApiOutcomes : RefreshStoresFail(r, outcome)
  \/ FetchCategories
  \/ \E category \in {Null, Str("grocery")} : GetBusinessStats(category)
  \/ \E r \in BagToSet(inflight) : BusinessStatsOk(r)
  \/ \E r \in BagToSet(inflight), outcome \in FetchOutcomes : BusinessStatsFail(r, outcome)

Spec == Init /\ [][Next]_vars

\* Timers fire: axios' timeout, useDebounce's timer and the geolocation
\* request's timeout option.  Nothing obliges the backend to answer.
LiveSpec ==
  /\ Spec
  /\ WF_vars(\E r \in BagToSet(inflight) : AxiosTimeout(r))
  /\ WF_vars(DebounceFire)
  /\ WF_vars(\E r \in BagToSet(inflight) : GeoFail(r, 3))

(***************************************************************************)
(* Pure functions: the list views, the base URL of the two clients and     *)
(* the distance implementations, each applied to arguments from a small    *)
(* set.                                                                    *)
(***************************************************************************)
\* (mutation) the "no results" return comes before the error return
StoreListView_EmptyFirst(p) ==
  IF ~p.loading /\ Len(p.stores) = 0 THEN "empty"
  ELSE IF p.error # Null THEN "error"
  ELSE IF p.loading /\ Len(p.stores) = 0 THEN "loading"
  ELSE "list"

\* StoreList: the error return, then loading / empty / the grid
StoreListView(p) ==
  IF p.error # Null THEN "error"
  ELSE IF p.loading /\ Len(p.stores) = 0 THEN "loading"
  ELSE IF Len(p.stores) = 0 THEN "empty"
  ELSE "list"

\* process.env of a build
Envs ==
  [NODE_ENV : {Undefined, Str("development"), Str("production"), Str("test")},
   REACT_APP_ENVIRONMENT : {Undefined, Str("github-pages")},
   REACT_APP_API_URL : {Undefined, Str(""), Str("https://api.example.com")},
   REACT_APP_BACKEND_URL : {Undefined, Str("https://backend.example.com")}]

\* config.getApiBaseUrl(), the baseURL of ApiService's axios instance
GetApiBaseUrl(env) ==
  IF Truthy(env.REACT_APP_API_URL) THEN env.REACT_APP_API_URL.s
  ELSE IF env.NODE_ENV = Str("development") THEN ""
  ELSE IF env.REACT_APP_ENVIRONMENT = Str("github-pages")
    THEN IF Truthy(env.REACT_APP_BACKEND_URL)
           THEN env.REACT_APP_BACKEND_URL.s
           ELSE "https://iac-infraengine-backend.azurecontainerapps.io"
  ELSE "http://localhost:5000"

\* useBusinesses' own API_BASE_URL
HookApiBaseUrl(env) ==
  IF Truthy(env.REACT_APP_API_URL) THEN env.REACT_APP_API_URL.s
  ELSE IF env.NODE_ENV = Str("development") THEN ""
  ELSE "http://localhost:5000"

\* numbers with four decimals: x stands for x / FP
FP == 10000
\* Math.PI
PiFP == 31416
\* a quotient rounded to the nearest unit, alike for n and -n
RoundDiv(n, d) ==
  IF n >= 0 THEN (2 * n + d) \div (2 * d) ELSE -((2 * (-n) + d) \div (2 * d))
FMul(x, y) == RoundDiv(x * y, FP)
FDiv(x, y) == RoundDiv(x * FP, y)
\* degrees * Math.PI / 180
ToRadians(deg) == RoundDiv(deg * PiFP, 180)
\* Math.sin and Math.cos by their series
Sin(x) ==
  LET x2 == FMul(x, x)
      x3 == FMul(x2, x)
      x5 == FMul(x3, x2)
      x7 == FMul(x5, x2)
  IN x - RoundDiv(x3, 6) + RoundDiv(x5, 120) - RoundDiv(x7, 5040)
Cos(x) ==
  LET x2 == FMul(x, x)
      x4 == FMul(x2, x2)
      x6 == FMul(x4, x2)
  IN FP - RoundDiv(x2, 2) + RoundDiv(x4, 24) - RoundDiv(x6, 720)
\* Math.sqrt of a number in 0..1
Sqrt(a) == CHOOSE r \in 0..FP : r * r <= a * FP /\ a * FP < (r + 1) * (r + 1)
\* Math.atan of a number in 0..1
Atan(t) ==
  LET t2 == FMul(t, t)
      t3 == FMul(t2, t)
      t5 == FMul(t3, t2)
      t7 == FMul(t5, t2)
  IN t - RoundDiv(t3, 3) + RoundDiv(t5, 5) - RoundDiv(t7, 7)
\* Math.atan2(y, x) for y >= 0 and x >= 0
Atan2(y, x) ==
  IF y = 0 THEN 0
  ELSE IF x >= y THEN Atan(FDiv(y, x))
  ELSE RoundDiv(PiFP, 2) - Atan(FDiv(x, y))

\* the haversine term a and the angle c = 2 * atan2(sqrt(a), sqrt(1 - a))
HaversineA(lat1, lng1, lat2, lng2) ==
  LET phi1        == ToRadians(lat1)
      phi2        == ToRadians(lat2)
      deltaPhi    == ToRadians(lat2 - lat1)
      deltaLambda == ToRadians(lng2 - lng1)
      sinPhi      == Sin(RoundDiv(deltaPhi, 2))
      sinLambda   == Sin(RoundDiv(deltaLambda, 2))
  IN FMul(sinPhi, sinPhi)
       + FMul(FMul(FMul(Cos(phi1), Cos(phi2)), sinLambda), sinLambda)
HaversineC(a) == 2 * Atan2(Sqrt(a), Sqrt(FP - a))

\* R * c with R = 6371000 m, in tenths of a metre
EarthRadiusKm == 6371
TimesR(c) == c * EarthRadiusKm

\* Math.round of a length given in tenths of a metre, in tenths of a metre
MathRound(d) == 10 * ((d + 5) \div 10)

\* googleMapsService.calculateDistance: Math.round(R * c)
CalculateDistance(lat1, lng1, lat2, lng2) ==
  MathRound(TimesR(HaversineC(HaversineA(lat1, lng1, lat2, lng2))))

\* (mutation) cos(phi1) squared takes the place of cos(phi1) * cos(phi2)
MockCalculateDistance_OneLatitude(lat1, lng1, lat2, lng2) ==
  LET sinPhi    == Sin(RoundDiv(ToRadians(lat2 - lat1), 2))
      sinLambda == Sin(RoundDiv(ToRadians(lng2 - lng1), 2))
      cosPhi1   == Cos(ToRadians(lat1))
      a == FMul(sinPhi, sinPhi)
             + FMul(FMul(FMul(cosPhi1, cosPhi1), sinLambda), sinLambda)
  IN TimesR(HaversineC(a))

\* MockGoogleMapsService.calculateDistance: R * c
MockCalculateDistance(lat1, lng1, lat2, lng2) ==
  TimesR(HaversineC(HaversineA(lat1, lng1, lat2, lng2)))

\* (mutation) the distance is never less than one metre
StoreListFormula_AtLeastOne(userLocation, store) ==
  LET d == TimesR(HaversineC(HaversineA(userLocation.lat, userLocation.lng,
                                        store.lat, store.lng)))
  IN IF d < 10 THEN 10 ELSE d

\* StoreList.calculateDistance after its guard: R * c from userLocation to
\* the store
StoreListFormula(userLocation, store) ==
  TimesR(HaversineC(HaversineA(userLocation.lat, userLocation.lng,
                               store.lat, store.lng)))

\* points, in whole degrees
GridPoints == [lat : {-36, 0, 35, 36}, lng : {-14, 0, 14, 15}]

\* Strings that are searched in are sequences of their characters.
Uppercase == <<"A", "B", "C", "D", "E", "F", "G", "H", "I", "J", "K", "L", "M",
               "N", "O", "P", "Q", "R", "S", "T", "U", "V", "W", "X", "Y", "Z">>
Lowercase == <<"a", "b", "c", "d", "e", "f", "g", "h", "i", "j", "k", "l", "m",
               "n", "o", "p", "q", "r", "s", "t", "u", "v", "w", "x", "y", "z">>

\* String.prototype.toLowerCase
ToLowerCase(s) ==
  [i \in 1..Len(s) |->
     IF \E k \in 1..Len(Uppercase) : Uppercase[k] = s[i]
       THEN Lowercase[CHOOSE k \in 1..Len(Uppercase) : Uppercase[k] = s[i]]
       ELSE s[i]]

\* String.prototype.includes
Includes(s, q) ==
  \E i \in 0..(Len(s) - Len(q)) : SubSeq(s, i + 1, i + Len(q)) = q

\* MockGoogleMapsService.mockStores: name and formatted_address
MockStores == <<
  \* Greens Supermarket; Republic Street, Valletta, Malta
  [name |->
       <<"G", "r", "e", "e", "n", "s", " ", "S", "u", "p", "e", "r",
         "m", "a", "r", "k", "e", "t">>,
   formatted_address |->
       <<"R", "e", "p", "u", "b", "l", "i", "c", " ", "S", "t", "r",
         "e", "e", "t", ",", " ", "V", "a", "l", "l", "e", "t", "t",
         "a", ",", " ", "M", "a", "l", "t", "a">>],
  \* Pama Shopping Village; Triq il-Qrendi, Mqabba, Malta
  [name |->
       <<"P", "a", "m", "a", " ", "S", "h", "o", "p", "p", "i", "n",
         "g", " ", "V", "i", "l", "l", "a", "g", "e">>,
   formatted_address |->
       <<"T", "r", "i", "q", " ", "i", "l", "-", "Q", "r", "e", "n",
         "d", "i", ",", " ", "M", "q", "a", "b", "b", "a", ",", " ",
         "M", "a", "l", "t", "a">>],
  \* Valyou Supermarket; Tower Road, Sliema, Malta
  [name |->
       <<"V", "a", "l", "y", "o", "u", " ", "S", "u", "p", "e", "r",
         "m", "a", "r", "k", "e", "t">>,
   formatted_address |->
       <<"T", "o", "w", "e", "r", " ", "R", "o", "a", "d", ",", " ",
         "S", "l", "i", "e", "m", "a", ",", " ", "M", "a", "l", "t",
         "a">>],
  \* Welbees Supermarket; Triq ir-Repubblika, Victoria, Gozo, Malta
  [name |->
       <<"W", "e", "l", "b", "e", "e", "s", " ", "S", "u", "p", "e",
         "r", "m", "a", "r", "k", "e", "t">>,
   formatted_address |->
       <<"T", "r", "i", "q", " ", "i", "r", "-", "R", "e", "p", "u",
         "b", "b", "l", "i", "k", "a", ",", " ", "V", "i", "c", "t",
         "o", "r", "i", "a", ",", " ", "G", "o", "z", "o", ",", " ",
         "M", "a", "l", "t", "a">>],
  \* Lidl Malta; Triq Dun Karm, Birkirkara, Malta
  [name |->
       <<"L", "i", "d", "l", " ", "M", "a", "l", "t", "a">>,
   formatted_address |->
       <<"T", "r", "i", "q", " ", "D", "u", "n", " ", "K", "a", "r",
         "m", ",", " ", "B", "i", "r", "k", "i", "r", "k", "a", "r",
         "a", ",", " ", "M", "a", "l", "t", "a">>],
  \* Tower Supermarket; Triq it-Torri, Gzira, Malta
  [name |->
       <<"T", "o", "w", "e", "r", " ", "S", "u", "p", "e", "r", "m",
         "a", "r", "k", "e", "t">>,
   formatted_address |->
       <<"T", "r", "i", "q", " ", "i", "t", "-", "T", "o", "r", "r",
         "i", ",", " ", "G", "z", "i", "r", "a", ",", " ", "M", "a",
         "l", "t", "a">>],
  \* Smart Supermarket; Triq Vilhena, Hamrun, Malta
  [name |->
       <<"S", "m", "a", "r", "t", " ", "S", "u", "p", "e", "r", "m",
         "a", "r", "k", "e", "t">>,
   formatted_address |->
       <<"T", "r", "i", "q", " ", "V", "i", "l", "h", "e", "n", "a",
         ",", " ", "H", "a", "m", "r", "u", "n", ",", " ", "M", "a",
         "l", "t", "a">>],
  \* Park Towers Supermarket; Park Towers, Tigne Point, Sliema, Malta
  [name |->
       <<"P", "a", "r", "k", " ", "T", "o", "w", "e", "r", "s", " ",
         "S", "u", "p", "e", "r", "m", "a", "r", "k", "e", "t">>,
   formatted_address |->
       <<"P", "a", "r", "k", " ", "T", "o", "w", "e", "r", "s", ",",
         " ", "T", "i", "g", "n", "e", " ", "P", "o", "i", "n", "t",
         ",", " ", "S", "l", "i", "e", "m", "a", ",", " ", "M", "a",
         "l", "t", "a">>],
  \* Mega Mart; Triq il-Kbira, Mosta, Malta
  [name |->
       <<"M", "e", "g", "a", " ", "M", "a", "r", "t">>,
   formatted_address |->
       <<"T", "r", "i", "q", " ", "i", "l", "-", "K", "b", "i", "r",
         "a", ",", " ", "M", "o", "s", "t", "a", ",", " ", "M", "a",
         "l", "t", "a">>]>>

\* the texts searched for: "lidl", "LIDL", "Valletta", "tower", "kebab"
SearchTexts ==
  {<<"l", "i", "d", "l">>,
   <<"L", "I", "D", "L">>,
   <<"V", "a", "l", "l", "e", "t", "t", "a">>,
   <<"t", "o", "w", "e", "r">>,
   <<"k", "e", "b", "a", "b">>}

\* MockGoogleMapsService.searchByText(query): the stores it returns (their
\* positions in mockStores)
SearchByText(query) ==
  LET queryLower == ToLowerCase(query)
  IN {i \in 1..Len(MockStores) :
        \/ Includes(ToLowerCase(MockStores[i].name), queryLower)
        \/ Includes(ToLowerCase(MockStores[i].formatted_address), queryLower)}

\* MockPlacesService.textSearch(request, callback): the results handed to
\* the callback
TextSearch(request) ==
  {i \in 1..Len(MockStores) :
     Includes(ToLowerCase(MockStores[i].name), ToLowerCase(request.query))}

\* props handed to a list view
ViewItems == {<<>>, <<1>>, <<1, 2>>}
ViewErrors == {Null, Text(<<"Network Error">>)}

\* a function and its arguments, not yet evaluated
Call(fn, args) == [fn |-> fn, args |-> args, done |-> FALSE, out |-> Undefined]
Return(value) == [calc EXCEPT !.done = TRUE, !.out = value]

CalcInputs ==
  {Call("BusinessList", [loading |-> l, error |-> e, businesses |-> b]) :
     l \in BOOLEAN, e \in ViewErrors, b \in ViewItems}
  \cup {Call("StoreList", [loading |-> l, error |-> e, stores |-> b]) :
     l \in BOOLEAN, e \in ViewErrors, b \in ViewItems}
  \cup {Call("baseUrl", env) : env \in Envs}
  \cup {Call(impl, [a |-> a, b |-> b]) :
     impl \in {"googleMaps", "mockGoogleMaps", "StoreListDistance"},
     a \in GridPoints, b \in GridPoints}
  \cup {Call(fn, [query |-> q]) :
     fn \in {"searchByText", "textSearch"}, q \in SearchTexts}

CalcInit == HooksInit /\ calc \in CalcInputs

hookVars == <<biz, st, geo, activeCategory, filters, debouncedQuery, stats,
              authToken, mounted, inflight, actions>>

RenderBusinessList ==
  /\ calc.fn = "BusinessList" /\ ~calc.done
  /\ calc' = Return(BusinessListView(calc.args))
  /\ UNCHANGED hookVars

RenderStoreList ==
  /\ calc.fn = "StoreList" /\ ~calc.done
  /\ calc' = Return(StoreListView(calc.args))
  /\ UNCHANGED hookVars

\* the modules are loaded: config.js and useBusinesses.js each fix their
\* base URL
LoadModules ==
  /\ calc.fn = "baseUrl" /\ ~calc.done
  /\ calc' = Return([api  |-> GetApiBaseUrl(calc.args),
                     hook |-> HookApiBaseUrl(calc.args)])
  /\ UNCHANGED hookVars

GoogleMapsDistance ==
  /\ calc.fn = "googleMaps" /\ ~calc.done
  /\ calc' = Return(CalculateDistance(calc.args.a.lat, calc.args.a.lng,
                                      calc.args.b.lat, calc.args.b.lng))
  /\ UNCHANGED hookVars

MockDistance ==
  /\ calc.fn = "mockGoogleMaps" /\ ~calc.done
  /\ calc' = Return(MockCalculateDistance(calc.args.a.lat, calc.args.a.lng,
                                          calc.args.b.lat, calc.args.b.lng))
  /\ UNCHANGED hookVars

StoreListDistance ==
  /\ calc.fn = "StoreListDistance" /\ ~calc.done
  /\ calc' = Return(StoreListFormula(calc.args.a, calc.args.b))
  /\ UNCHANGED hookVars

MockSearchByText ==
  /\ calc.fn = "searchByText" /\ ~calc.done
  /\ calc' = Return(SearchByText(calc.args.query))
  /\ UNCHANGED hookVars

MockTextSearch ==
  /\ calc.fn = "textSearch" /\ ~calc.done
  /\ calc' = Return(TextSearch(calc.args))
  /\ UNCHANGED hookVars

CalcNext ==
  \/ RenderBusinessList
  \/ RenderStoreList
  \/ LoadModules
  \/ GoogleMapsDistance
  \/ MockDistance
  \/ StoreListDistance
  \/ MockSearchByText
  \/ MockTextSearch

CalcSpec == CalcInit /\ [][CalcNext]_vars

(***************************************************************************)
(* Properties.                                                             *)
(***************************************************************************)
InFlight == BagToSet(inflight)

\* the requests a step issues
NewlyIssued == BagToSet(inflight' (-) inflight)

\* the requests a step takes out of flight
Settled == BagToSet(inflight (-) inflight')

\* the step delivers the successful response to request r: BizOk(r), which
\* leaves the hook's error as it was
BizSucceeds(r) == biz'.error = biz.error /\ BizOk(r)

\* the step is a user's action
UserStep == actions' # actions

\* no position of a list repeats an earlier one
NoDuplicates(list) ==
  \A i, j \in 1..Len(list) : list[i] = list[j] => i = j

\* the offset (or skip) a request's query string carries, 0 when absent
SentOffset(r, key) == IF key \in DOMAIN r.query THEN ParseNum(r.query[key]) ELSE 0

\* the ids from a to b in ascending order
Range(a, b) == [i \in 1..(b - a + 1) |-> a + i - 1]

\* C1: whenever a request of a fetch-triggering operation of useBusinesses
\* or useStores fails, whatever the hook held before, the hook afterwards has
\* error non-null, an empty result set and loading = false.
C1_FailedFetchLeavesEmptySet ==
  [][\A r \in Settled :
       /\ \A o \in FetchOutcomes :
            (BizFail(r, o)) =>
              biz'.error # Null /\ biz'.businesses = <<>> /\ ~biz'.loading
       /\ \A o \in ApiOutcomes :
            (StoresFail(r, o)) =>
              st'.error # Null /\ st'.stores = <<>> /\ ~st'.loading]_vars

\* C2: after a successful list fetch the held set is the returned page when
\* the request's offset/skip is 0 or absent, and the previously held set
\* followed by the returned page when it is > 0 (fetchBusinesses by offset,
\* fetchStores by skip).
C2_ReplaceOrAppend ==
  [][\A r \in Settled :
       /\ BizSucceeds(r) =>
            biz'.businesses =
              IF SentOffset(r, "offset") = 0
                THEN BusinessesEndpoint(r.query).businesses
                ELSE biz.businesses \o BusinessesEndpoint(r.query).businesses
       /\ (r.op = "stores" /\ StoresOk(r)) =>
            st'.stores =
              IF SentOffset(r, "skip") = 0
                THEN StoresEndpoint(r.query).stores
                ELSE st.stores \o StoresEndpoint(r.query).stores]_vars

\* C3: the result set held by useBusinesses never contains two records with
\* the same id (the backend's pages are duplicate-free and disjoint per
\* query; load-more is issued with offset = number held, while enabled).
C3_NoDuplicateIds == NoDuplicates(biz.businesses)

\* a request for the unfiltered grocery list (120 records at the backend)
PlainGrocery(r) ==
  /\ r.op = "businesses"
  /\ "category" \in DOMAIN r.query /\ r.query["category"] = "grocery"
  /\ "query" \notin DOMAIN r.query
  /\ "latitude" \notin DOMAIN r.query
  /\ "limit" \in DOMAIN r.query /\ r.query["limit"] = "50"

\* C4: with total = GroceryTotal (120) and pages of 50, a successful fetch
\* of the window at offset 0 or 50 leaves hasMore true and one of the window
\* at offset 100 leaves it false; Load More is only ever pressed while
\* hasMore is true.
C4_HasMoreDrivesLoadMore ==
  [][/\ \A r \in Settled :
          (PlainGrocery(r) /\ BizSucceeds(r)) =>
             /\ SentOffset(r, "offset") \in {0, 50} => biz'.hasMore
             /\ SentOffset(r, "offset") = 100 => ~biz'.hasMore
     /\ (UserStep /\ LoadMore) => biz.hasMore]_vars

\* the three pages were fetched one after the other: all records are held
C4_Witness ==
  /\ biz.businesses = Range(1, GroceryTotal)
  /\ biz.total = GroceryTotal
  /\ ~biz.hasMore /\ ~biz.loading
  /\ inflight = EmptyBag

\* C5: every request a category change to c issues (by SearchFilters'
\* search effect or by App's category effect) goes to /api/businesses with
\* category = c and offset 0 or absent, and the successful response to a
\* request of these two effects replaces the held set.
C5_CategoryChangeReplaces ==
  [][/\ \A c \in {"grocery", "pharmacy"} :
          (UserStep /\ (CategoryChangeTab(c) \/ CategoryChangeSelect(c))) =>
             /\ NewlyIssued # {}
             /\ \A r \in NewlyIssued :
                  /\ r.op = "businesses"
                  /\ "category" \in DOMAIN r.query /\ r.query["category"] = c
                  /\ SentOffset(r, "offset") = 0
     /\ \A r \in Settled :
          (r.src \in {"search", "appEffect"} /\ biz'.error = biz.error) =>
             \/ biz'.businesses = BusinessesEndpoint(r.query).businesses
             \/ ~BizOk(r)]_vars

\* after a change to pharmacy the held set is the pharmacy page alone
C5_Witness ==
  /\ activeCategory = "pharmacy"
  /\ biz.businesses = Range(GroceryTotal + 1, GroceryTotal + PharmacyTotal)
  /\ ~biz.loading

\* C6: in every request of a search/list operation, a key of the filter
\* object whose value is null, undefined or '' is not in the query string,
\* and every key with another value is.
C6_AbsentOmittedPresentSent ==
  \A r \in InFlight :
    r.op \in {"businesses", "storesSearch"} =>
      \A k \in DOMAIN r.params :
        (k \in DOMAIN r.query) <=>
          (r.params[k] # Null /\ r.params[k] # Undefined /\ r.params[k] # Str(""))

\* the failure carries the HTTP status and the backend's message: in its
\* response, or spelled out in its message
CarriesStatusAndDetail(err, o) ==
  \/ /\ err.response # Undefined
     /\ err.response.status = o.status
     /\ err.response.data.detail = o.detail
  \/ /\ \E i \in 1..Len(err.message.parts) : err.message.parts[i] = ToString(o.status)
     /\ \E i \in 1..Len(err.message.parts) : err.message.parts[i] = o.detail

\* C7: a non-2xx response reaches the hook as a failure carrying the HTTP
\* status and the backend's message; a network failure reaches it as a
\* failure that differs from every HTTP-error failure.
C7_FailureCarriesStatusAndMessage ==
  [][\A r \in Settled :
       /\ \A o \in FetchOutcomes :
            (BizFail(r, o)) =>
              LET err == FetchError("Failed to fetch businesses: ", o)
              IN /\ biz'.error = err.message
                 /\ o.kind = "http" => CarriesStatusAndDetail(err, o)
                 /\ o.kind = "network" =>
                      \A h \in FetchOutcomes :
                        h.kind = "http" =>
                          err # FetchError("Failed to fetch businesses: ", h)
       /\ \A o \in ApiOutcomes :
            (StoresFail(r, o)) =>
              LET err == AxiosError(o)
              IN /\ o.kind = "http" => CarriesStatusAndDetail(err, o)
                 /\ o.kind = "network" =>
                      \A h \in ApiOutcomes :
                        h.kind = "http" => err # AxiosError(h)]_vars

\* C8: when an ApiService call is answered 401 the stored token is gone
\* afterwards, the caller gets the failure (useStores is in its error state,
\* App's stats stay unset) and no request is issued in the step; after any
\* other failure the stored token is as before.
C8_UnauthorizedClearsToken ==
  [][\A r \in Settled :
       /\ \A o \in ApiOutcomes :
            ((StatsFail(r, o) \/ StoresFail(r, o))) =>
               /\ authToken' = IF o.status = 401 THEN Null ELSE authToken
               /\ NewlyIssued = {}
               /\ inflight' = inflight (-) SetToBag({r})
               /\ r.op = "stats" => stats' = stats
               /\ r.op # "stats" => st'.error # Null /\ ~st'.loading
       /\ (AxiosTimeout(r)) =>
            authToken' = authToken /\ NewlyIssued = {}]_vars

\* a 401 has removed the token that was stored at the start
C8_Witness == authToken = Null

\* C9: a platform failure with code c leaves location null, loading false
\* and an error string that no other of the four failures produces.
C9_GeolocationErrorsDistinct ==
  [][\A r \in Settled : \A code \in GeoCodes :
       (r.op = "geo" /\ GeoFail(r, code)) =>
         /\ geo'.location = Null
         /\ ~geo'.loading
         /\ geo'.error # Null
         /\ \A other \in GeoCodes \ {code} :
              geo'.error # Text(<<GeoMessageFor(r, other)>>)]_vars

\* the hook holds the message of the timeout failure
C9_Witness ==
  /\ geo.error = Text(<<"Location request timed out">>)
  /\ geo.location = Null
  /\ ~geo.loading

\* C10: a hook's loading flag, once true, becomes false again without a
\* further user action, even if the backend never answers.
C10_LoadingEndsWithoutAnswer ==
  /\ biz.loading ~> ~biz.loading
  /\ st.loading ~> ~st.loading

\* the items a list view was given
ViewItemsOf(args) ==
  IF "businesses" \in DOMAIN args THEN args.businesses ELSE args.stores

\* C12: for every (loading, error, result set) BusinessList and StoreList
\* render one of loading / error / "no results" / the list, and "no results"
\* exactly when loading is false, error is null and the set is empty.
C12_ExactlyOneViewState ==
  (calc.fn \in {"BusinessList", "StoreList"} /\ calc.done) =>
    /\ calc.out \in {"loading", "error", "empty", "list"}
    /\ (calc.out = "empty") <=>
         (/\ ~calc.args.loading
          /\ calc.args.error = Null
          /\ ViewItemsOf(calc.args) = <<>>)

\* StoreList rendered its "no results" state
C12_Witness ==
  /\ calc.fn = "StoreList" /\ calc.done
  /\ calc.out = "empty"

\* C16: for every environment the base URL of ApiService and the base URL
\* of useBusinesses are the same, and in a GitHub Pages build without
\* REACT_APP_API_URL it is REACT_APP_BACKEND_URL or, when that is unset,
\* https://iac-infraengine-backend.azurecontainerapps.io.
C16_OneBaseUrl ==
  (calc.fn = "baseUrl" /\ calc.done) =>
    /\ calc.out.api = calc.out.hook
    /\ (/\ calc.args.NODE_ENV = Str("production")
        /\ calc.args.REACT_APP_ENVIRONMENT = Str("github-pages")
        /\ ~Truthy(calc.args.REACT_APP_API_URL)) =>
         calc.out.hook =
           IF Truthy(calc.args.REACT_APP_BACKEND_URL)
             THEN calc.args.REACT_APP_BACKEND_URL.s
             ELSE "https://iac-infraengine-backend.azurecontainerapps.io"

DistanceImpls == {"googleMaps", "mockGoogleMaps", "StoreListDistance"}

C20_DistanceSymmetric ==
  /\ (calc.fn = "googleMaps" /\ calc.done) =>
       calc.out = CalculateDistance(calc.args.b.lat, calc.args.b.lng,
                                    calc.args.a.lat, calc.args.a.lng)
  /\ (calc.fn = "mockGoogleMaps" /\ calc.done) =>
       calc.out = MockCalculateDistance(calc.args.b.lat, calc.args.b.lng,
                                        calc.args.a.lat, calc.args.a.lng)

\* the mock's distance between two points of different latitude and longitude
C20_Witness ==
  /\ calc.fn = "mockGoogleMaps" /\ calc.done
  /\ calc.args.a.lat # calc.args.b.lat
  /\ calc.args.a.lng # calc.args.b.lng
  /\ calc.out > 0

\* App shows the list: CategoryTabs renders its children and BusinessList
\* renders the cards
ListRendered(h) ==
  /\ CategoryTabsView(h) = "tabs"
  /\ BusinessListView(h) = "list"

\* C15: a failure of fetchCategories leaves a list that App is rendering on
\* screen: if the list was rendered before the failure it is rendered after.
C15_CategoriesFailureKeepsList ==
  [][\A r \in Settled :
       (r.op = "categories" /\ biz'.error # biz.error) =>
         (ListRendered(biz) => ListRendered(biz'))]_vars

\* C17: when the geolocation request of a Near Me click succeeds, the step
\* issues exactly one nearby request, carrying the coordinates just
\* obtained, the selected radius and the active category.
C17_NearMeUsesObtainedPosition ==
  [][\A r \in Settled :
       (r.op = "geo" /\ r.src = "hook" /\ geo'.location # Null) =>
         inflight' (-) inflight =
           SetToBag({BizReq(NearbyBusinessesParams(Num(geo'.location.lat),
                                                   Num(geo'.location.lng),
                                                   Num(r.ctx.radius \div 1000),
                                                   Str(r.ctx.category)),
                            "nearby")})]_vars

\* C18: no search is dispatched by the edit of the search text itself: a
\* search caused by a text edit waits for the debounce timer.
C18_EditDispatchesNothing ==
  [][filters'.query # filters.query => inflight' = inflight]_vars

\* the step left the error of the hook that issued request r set
Failed(r) ==
  CASE r.op \in {"businesses", "categories", "refresh"} -> biz'.error # Null
    [] r.op = "geo" -> geo'.error # Null
    [] r.op \in StoresOps -> st'.error # Null
    [] OTHER -> FALSE

C13_SuccessfulTriggerSchedulesRefetch ==
  [][\A r \in Settled :
       /\ (RefreshOk(r) \/ RefreshStoresOk(r)) =>
            \E t \in NewlyIssued : t.transport = "timer"
       /\ r.op = "refreshTimer" =>
            inflight' (-) inflight =
              SetToBag({BizReq([category |-> r.params.category,
                                limit |-> Num(50), offset |-> Num(0)],
                               "refresh")})]_vars

\* C14: a 200 response whose body has an unexpected shape leaves the hook
\* in the error state, and the hook never holds a result set that is not a
\* list, so BusinessList does not crash.
C14_MalformedBodyEndsInError ==
  [][\A r \in Settled :
       r.op = "businesses" =>
         /\ biz'.businesses # NotAList
         /\ BusinessListRender(biz') # "crash"
         /\ (\E body \in MalformedBodies : BizMalformed(r, body)) =>
              biz'.error # Null]_vars

\* C23: a successful getNearbyStores leaves the returned flat list as the
\* held set, total equal to its length and hasMore false, whatever the hook
\* held before.
C23_NearbyStoresResult ==
  [][\A r \in Settled :
       (r.op = "storesNearby" /\ StoresOk(r)) =>
         /\ st'.stores = NearbyStoresEndpoint(r.query)
         /\ st'.total = Len(st'.stores)
         /\ ~st'.hasMore]_vars

\* the 20 nearest stores are held after a second call of the hook
C23_Witness ==
  /\ mounted = "stores" /\ actions = 2 /\ inflight = EmptyBag
  /\ st.error = Null
  /\ Len(st.stores) = 20 /\ st.total = 20 /\ ~st.hasMore

\* the list fields of useBusinesses are as they were before the step
ListFieldsUnchanged ==
  /\ biz'.businesses = biz.businesses
  /\ biz'.total = biz.total
  /\ biz'.hasMore = biz.hasMore
  /\ biz'.loading = biz.loading

\* C29: fetchCategories, when called and when it succeeds or fails, leaves
\* businesses, total, hasMore and loading unchanged; getBusinessStats, when
\* called and when it succeeds or fails, leaves the whole hook state
\* unchanged.
C29_CategoriesAndStatsFrame ==
  [][/\ \A r \in Settled :
          /\ r.op = "categories" => ListFieldsUnchanged
          /\ r.op = "businessStats" => biz' = biz
     /\ \A q \in NewlyIssued :
          /\ (q.op = "categories" /\ mounted = "businesses") => ListFieldsUnchanged
          /\ q.op = "businessStats" => biz' = biz]_vars

\* fetchCategories has failed while a fetched list is held
C29_Witness ==
  /\ biz.error = Text(<<"Failed to fetch categories: ", "500">>)
  /\ Len(biz.businesses) > 0
  /\ biz.total > 0

\* how many GET /api/businesses requests the step issues
BusinessesIssued ==
  LET d == inflight' (-) inflight
      S == {r \in BagToSet(d) : r.op = "businesses"}
  IN BagCardinality([r \in S |-> d[r]])

\* C28: the mount of App issues exactly one GET /api/businesses request,
\* and so does each category change.
C28_OneRequestPerMountOrCategoryChange ==
  [][/\ (mounted = "none" /\ mounted' = "App") => BusinessesIssued = 1
     /\ activeCategory' # activeCategory => BusinessesIssued = 1]_vars

\* the query string of the search request for the filters now in the form
CurrentSearchQuery ==
  BizQueryParams(HandleSearchParams(SearchParams(filters), activeCategory))

\* C25: a load-more request continues the query whose page is displayed:
\* when the held set is the first page of the text search for the current
\* filters, the request carries that search's parameters and differs from
\* it in offset only.
C25_LoadMoreContinuesQuery ==
  [][(/\ UserStep /\ LoadMore
      /\ filters.query # "" /\ debouncedQuery = filters.query
      /\ biz.businesses = BusinessesEndpoint(CurrentSearchQuery).businesses) =>
       \A q \in NewlyIssued :
         \A k \in DOMAIN CurrentSearchQuery \ {"offset"} :
           k \in DOMAIN q.query /\ q.query[k] = CurrentSearchQuery[k]]_vars

HeldInActiveCategory ==
  \A i \in 1..Len(biz.businesses) :
    CategoryOf(biz.businesses[i]) = activeCategory

\* C26: in App, whenever no request is in flight and no timer is pending
\* (neither a refresh timer nor the debounce timer of an edit), every record
\* held by useBusinesses belongs to the active category (the backend
\* returns only records of the requested category).  States in which the
\* hook reports an error are left aside.
C26_HeldBelongsToActiveCategory ==
  (/\ mounted = "App"
   /\ inflight = EmptyBag
   /\ debouncedQuery = filters.query
   /\ biz.error = Null) => HeldInActiveCategory

\* C22: a replacing fetch is applied when its answer arrives, whatever was
\* issued or answered in between: after the step that delivers the
\* successful answer to request r, the held set, total and hasMore are
\* those of r's answer, also when r is older than the answer applied before.
C22_AppliedInArrivalOrder ==
  [][\A r \in Settled :
       /\ (r.op = "businesses" /\ SentOffset(r, "offset") = 0
             /\ BizSucceeds(r)) =>
            LET data == BusinessesEndpoint(r.query)
            IN /\ biz'.businesses = data.businesses
               /\ biz'.total = data.total
               /\ biz'.hasMore = data.has_more
       /\ (r.op \in {"stores", "storesSearch"} /\ StoresOk(r)) =>
            LET result == StoresEndpoint(r.query)
            IN /\ st'.stores = result.stores
               /\ st'.total = result.total
               /\ st'.hasMore = result.has_more]_vars

\* the grocery answer of an older request arrived after the pharmacy
\* answers of the category change: it is what the hook holds
C22_Witness ==
  /\ activeCategory = "pharmacy"
  /\ \A r \in InFlight : r.op # "businesses"
  /\ biz.error = Null /\ ~biz.loading
  /\ biz.businesses = Range(1, 50)
  /\ biz.total = GroceryTotal /\ biz.hasMore

\* C24: each hook's loading flag is true in every state in which one of
\* the hook's fetches is in flight, so Load More (disabled while loading)
\* cannot be pressed while a fetch is outstanding.
C24_LoadingWhileInFlight ==
  /\ (\E r \in InFlight : r.op = "businesses") => biz.loading
  /\ (\E r \in InFlight : r.op \in StoresOps) => st.loading

\* the stores whose name or address contains q, letter case ignored
MatchingStores(q) ==
  {i \in 1..Len(MockStores) :
     \/ Includes(ToLowerCase(MockStores[i].name), ToLowerCase(q))
     \/ Includes(ToLowerCase(MockStores[i].formatted_address), ToLowerCase(q))}

\* C21: each text-search implementation (MockGoogleMapsService.searchByText,
\* MockPlacesService.textSearch) returns exactly the records whose name or
\* address contains the query, letter case ignored.
C21_TextSearchMatchesNameOrAddress ==
  (calc.fn \in {"searchByText", "textSearch"} /\ calc.done) =>
    calc.out = MatchingStores(calc.args.query)

====
